---- MODULE Spec2Model ----
(***************************************************************************)
(* Drift detection engine of bitcoin-ml-pipeline                           *)
(* (src/src/data_drift_detection.py): DriftDetectionEngine and DriftReport.*)
(*                                                                         *)
(* Real numbers are integers in units of 1e-7 (Unit = 1.0), fine enough to *)
(* tell a value from its rounding to 6 decimals.  Python objects that are  *)
(* shared by reference (a report's dicts and its list) live in `heap`; a   *)
(* reference to them is a record [ref, attr].                              *)
(***************************************************************************)
EXTENDS Integers, Sequences, FiniteSets, TLC

VARIABLES
    constructed,            \* a DriftDetectionEngine object exists
    reference_data,         \* self.reference_data
    threshold_ks,           \* self.threshold_ks
    threshold_psi,          \* self.threshold_psi
    threshold_wasserstein,  \* self.threshold_wasserstein
    reference_period,       \* self.reference_period
    reference_stats,        \* self.reference_stats
    drift_history,          \* self.drift_history
    heap,                   \* the DriftReport objects allocated so far
    last,                   \* the latest call on the engine and its outcome
    clock,                  \* datetime.now(), one tick per detect_drift call
    n_returned,             \* number of detect_drift calls that returned
    adds,                   \* number of add_* calls made by a caller
    frames                  \* the detect_drift call in progress of each caller

engine_fields ==
    <<reference_data, threshold_ks, threshold_psi, threshold_wasserstein,
      reference_period, reference_stats>>

vars ==
    <<constructed, reference_data, threshold_ks, threshold_psi,
      threshold_wasserstein, reference_period, reference_stats,
      drift_history, heap, last, clock, n_returned, adds, frames>>

----------------------------------------------------------------------------
(* Bounds of the exploration *)

MaxCalls == 2

MaxAdds == 3

MaxCallerAdds == 1

----------------------------------------------------------------------------
(* Numbers *)

\* 1.0
Unit == 10 * 1000 * 1000

DefaultThresholdKs == 500000

DefaultThresholdPsi == 2500000

DefaultThresholdWasserstein == 1000000

PsiLowBand == 1000000

PsiMediumBand == 2500000

\* round(x, 6): to the nearest multiple of 1e-6, a tie going to the even one
round6(x) ==
    LET q == x \div 10
        r == x % 10
    IN  IF r < 5 THEN 10 * q
        ELSE IF r > 5 THEN 10 * (q + 1)
        ELSE IF q % 2 = 0 THEN 10 * q ELSE 10 * (q + 1)

----------------------------------------------------------------------------
(* Python dicts: insertion-ordered, assignment to an existing key keeps    *)
(* the key's position.  A dict is a sequence of [key, value].              *)

EmptyDict == << >>

DictKeys(d) == {d[i].key : i \in 1..Len(d)}

DictHas(d, k) == \E i \in 1..Len(d) : d[i].key = k

DictGet(d, k) == d[CHOOSE i \in 1..Len(d) : d[i].key = k].value

DictSet(d, k, v) ==
    IF DictHas(d, k)
    THEN [i \in 1..Len(d) |-> IF d[i].key = k THEN [key |-> k, value |-> v] ELSE d[i]]
    ELSE Append(d, [key |-> k, value |-> v])

----------------------------------------------------------------------------
(* DriftReport *)

Severities == <<"LOW", "MEDIUM", "HIGH", "CRITICAL">>

SeverityRank(s) == CHOOSE i \in 1..Len(Severities) : Severities[i] = s

interpretation(drift_detected) == IF drift_detected THEN "DRIFT" ELSE "NO_DRIFT"

\* DriftReport.__init__
DriftReport(ref_period, cur_period, ref_size, cur_size, now) ==
    [reference_period  |-> ref_period,
     current_period    |-> cur_period,
     reference_size    |-> ref_size,
     current_size      |-> cur_size,
     timestamp         |-> now,
     ks_tests          |-> EmptyDict,
     wasserstein_tests |-> EmptyDict,
     psi_tests         |-> EmptyDict,
     chi_square_tests  |-> EmptyDict,
     missing_columns   |-> << >>,
     drift_detected    |-> FALSE,
     overall_severity  |-> "LOW"]

get_psi_severity(psi) ==
    IF psi < PsiLowBand THEN "LOW"
    ELSE IF psi < PsiMediumBand THEN "MEDIUM"
    ELSE "HIGH"

add_ks_test_escalating(self, column, statistic, p_value, drift_detected) ==
    [self EXCEPT
        !.ks_tests = DictSet(@, column,
            [statistic      |-> round6(statistic),
             p_value        |-> round6(p_value),
             drift_detected |-> drift_detected,
             interpretation |-> interpretation(drift_detected)]),
        !.drift_detected = IF drift_detected THEN TRUE ELSE @,
        !.overall_severity = IF drift_detected /\ @ = "LOW" THEN "MEDIUM" ELSE @]

add_ks_test(self, column, statistic, p_value, drift_detected) ==
    [self EXCEPT
        !.ks_tests = DictSet(@, column,
            [statistic      |-> round6(statistic),
             p_value        |-> round6(p_value),
             drift_detected |-> drift_detected,
             interpretation |-> interpretation(drift_detected)]),
        !.drift_detected = IF drift_detected THEN TRUE ELSE @]

add_wasserstein(self, column, distance, drift_detected) ==
    [self EXCEPT
        !.wasserstein_tests = DictSet(@, column,
            [distance       |-> round6(distance),
             drift_detected |-> drift_detected,
             interpretation |-> interpretation(drift_detected)]),
        !.drift_detected = IF drift_detected THEN TRUE ELSE @]

add_psi_severity_kept(old, drift_detected) == old

add_psi_severity(old, drift_detected) ==
    IF drift_detected THEN "HIGH" ELSE old

add_psi(self, column, psi_value, drift_detected) ==
    [self EXCEPT
        !.psi_tests = DictSet(@, column,
            [psi            |-> round6(psi_value),
             drift_detected |-> drift_detected,
             interpretation |-> interpretation(drift_detected),
             severity       |-> get_psi_severity(psi_value)]),
        !.drift_detected = IF drift_detected THEN TRUE ELSE @,
        !.overall_severity = add_psi_severity(@, drift_detected)]

add_chi_square(self, column, statistic, p_value, drift_detected) ==
    [self EXCEPT
        !.chi_square_tests = DictSet(@, column,
            [statistic      |-> round6(statistic),
             p_value        |-> round6(p_value),
             drift_detected |-> drift_detected,
             interpretation |-> interpretation(drift_detected)]),
        !.drift_detected = IF drift_detected THEN TRUE ELSE @]

add_missing_column_prepend(self, column) ==
    [self EXCEPT
        !.missing_columns = <<column>> \o @,
        !.drift_detected = TRUE,
        !.overall_severity = "CRITICAL"]

add_missing_column(self, column) ==
    [self EXCEPT
        !.missing_columns = Append(@, column),
        !.drift_detected = TRUE,
        !.overall_severity = "CRITICAL"]

\* A reference to one of the mutable collections of report object `id`
Ref(id, attr) == [ref |-> id, attr |-> attr]

\* DriftReport.to_dict of the report object `id` whose fields are `self`: the
\* scalars are copied, the four dicts and the list are put in the result by
\* reference
to_dict(id, self) ==
        [timestamp         |-> self.timestamp,
         reference_period  |-> self.reference_period,
         current_period    |-> self.current_period,
         reference_size    |-> self.reference_size,
         current_size      |-> self.current_size,
         drift_detected    |-> self.drift_detected,
         overall_severity  |-> self.overall_severity,
         ks_tests          |-> Ref(id, "ks_tests"),
         wasserstein_tests |-> Ref(id, "wasserstein_tests"),
         psi_tests         |-> Ref(id, "psi_tests"),
         chi_square_tests  |-> Ref(id, "chi_square_tests"),
         missing_columns   |-> Ref(id, "missing_columns")]

----------------------------------------------------------------------------
(* Datasets.  A DataFrame is its ordered columns (name and dtype) and its  *)
(* number of rows; a current DataFrame is the set of its column names, its *)
(* number of rows and the columns that hold text instead of numbers.       *)

ColumnNames == <<"price", "trend">>

DTypes == {"float64", "int32", "object"}

\* The dtypes of a reference DataFrame's columns, in column order
Schemas ==
    {<< >>} \cup {<<a>> : a \in DTypes} \cup {<<a, b>> : a, b \in DTypes}

\* Numbers of rows: none, and fewer than 2
RowCounts == {0, 1}

ContinuousDTypes == {"float64", "int64"}

CategoricalDTypes == {"object", "category"}

ReferenceDatasets ==
    {[columns |-> [i \in 1..Len(d) |-> [name |-> ColumnNames[i], dtype |-> d[i]]],
      rows    |-> r] : d \in Schemas, r \in RowCounts}

CurrentColumnNames == {ColumnNames[i] : i \in 1..Len(ColumnNames)}

CurrentDatasets ==
    UNION {
        {[columns |-> cs, rows |-> r, text |-> t] : t \in SUBSET cs, r \in RowCounts}
        : cs \in SUBSET CurrentColumnNames}

columns(data) == {data.columns[i].name : i \in 1..Len(data.columns)}

dtype(data, column) ==
    data.columns[CHOOSE i \in 1..Len(data.columns) : data.columns[i].name = column].dtype

len(data) == data.rows

----------------------------------------------------------------------------
(* What scipy and numpy compute for one column.  The statistics are not    *)
(* recomputed here: each call draws, for every column, one of these        *)
(* outcomes.  They sit on both sides of the thresholds and of the PSI      *)
(* bands, at the thresholds, and next to them by less than round6 keeps.   *)

LibOutcomes ==
    { \* identical samples
      [ks_statistic |-> 0, ks_p |-> Unit, ws |-> 0, psi |-> 0,
       chi2 |-> 0, chi2_p |-> Unit, chi2_fails |-> FALSE],
      \* every value exactly at its threshold; degenerate contingency table
      [ks_statistic |-> 2000000, ks_p |-> 500000, ws |-> 1000000, psi |-> 2500000,
       chi2 |-> 0, chi2_p |-> Unit, chi2_fails |-> TRUE],
      \* KS and Wasserstein beyond their thresholds by less than 1e-6
      [ks_statistic |-> 3000000, ks_p |-> 499996, ws |-> 1000004, psi |-> 999996,
       chi2 |-> 59900000, chi2_p |-> 499996, chi2_fails |-> FALSE],
      \* PSI beyond its threshold only
      [ks_statistic |-> 1000000, ks_p |-> 4000000, ws |-> 500000, psi |-> 2500004,
       chi2 |-> 59900000, chi2_p |-> 500000, chi2_fails |-> FALSE] }

\* float("nan")
NaN == "nan"

Raise == [tag |-> "raise"]

None == [tag |-> "none"]

----------------------------------------------------------------------------
(* DriftDetectionEngine *)

calculate_statistics(data) ==
    [c \in columns(data) |->
        IF dtype(data, c) \in ContinuousDTypes
        THEN [keys |-> {"mean", "std", "min", "max", "median", "q25", "q75",
                        "distribution"},
              distribution |-> [values_of |-> c, len |-> len(data)]]
        ELSE [keys |-> {"unique_values", "mode", "distribution"},
              distribution |-> [counts_of |-> c, len |-> len(data)]]]

\* current_data[column].values handed to ks_2samp or to
\* scipy's wasserstein_distance together with the retained reference sample:
\* a KeyError when the column is absent, an error of the routine when a
\* sample is empty or holds text
sample_fails(current_data, column) ==
    \/ column \notin current_data.columns
    \/ column \in current_data.text
    \/ len(current_data) = 0
    \/ reference_stats[column].distribution.len = 0

ks_test_any_dtype(current_data, column, lib) ==
    IF column \notin columns(reference_data) THEN None
    ELSE IF sample_fails(current_data, column) THEN Raise
    ELSE [tag |-> "value", statistic |-> lib.ks_statistic, p_value |-> lib.ks_p]

ks_test(current_data, column, lib) ==
    IF column \notin columns(reference_data) THEN None
    ELSE IF dtype(reference_data, column) \notin ContinuousDTypes THEN None
    ELSE IF sample_fails(current_data, column) THEN Raise
    ELSE [tag |-> "value", statistic |-> lib.ks_statistic, p_value |-> lib.ks_p]

wasserstein_distance(current_data, column, lib) ==
    IF column \notin columns(reference_data) THEN None
    ELSE IF dtype(reference_data, column) \notin ContinuousDTypes THEN None
    ELSE IF sample_fails(current_data, column) THEN Raise
    ELSE [tag |-> "value", distance |-> lib.ws]

population_stability_index(current_data, column, lib) ==
    IF column \notin columns(reference_data) THEN None
    ELSE IF dtype(reference_data, column) \notin ContinuousDTypes THEN None
    ELSE IF column \notin current_data.columns \/ column \in current_data.text
    THEN Raise
    \* counts / 0: no exception, the sum is nan
    ELSE IF len(current_data) = 0 \/ reference_stats[column].distribution.len = 0
    THEN [tag |-> "value", psi |-> NaN]
    ELSE [tag |-> "value", psi |-> lib.psi]

chi_square_test(current_data, column, lib) ==
    IF column \notin columns(reference_data) THEN None
    ELSE IF dtype(reference_data, column) \notin CategoricalDTypes THEN None
    ELSE IF column \notin current_data.columns THEN Raise
    \* chi2_contingency raises on a zero expected frequency: caught
    ELSE IF len(current_data) = 0 \/ len(reference_data) = 0 \/ lib.chi2_fails THEN None
    ELSE [tag |-> "value", statistic |-> lib.chi2, p_value |-> lib.chi2_p]

\* The three blocks of the numeric branch of detect_drift's loop body
ks_block(report, current_data, col, lib) ==
    LET ks == ks_test(current_data, col, lib)
    IN  IF ks.tag = "raise" THEN Raise
        ELSE IF ks.tag = "none" THEN [tag |-> "ok", report |-> report]
        ELSE [tag |-> "ok",
              report |-> add_ks_test(report, col, ks.statistic, ks.p_value,
                                     ks.p_value < threshold_ks)]

wasserstein_block(report, current_data, col, lib) ==
    LET ws == wasserstein_distance(current_data, col, lib)
    IN  IF ws.tag = "raise" THEN Raise
        ELSE IF ws.tag = "none" THEN [tag |-> "ok", report |-> report]
        ELSE [tag |-> "ok",
              report |-> add_wasserstein(report, col, ws.distance,
                                         ws.distance > threshold_wasserstein)]

psi_block(report, current_data, col, lib) ==
    LET psi == population_stability_index(current_data, col, lib)
    IN  IF psi.tag = "raise" THEN Raise
        ELSE IF psi.tag = "none" THEN [tag |-> "ok", report |-> report]
        ELSE [tag |-> "ok",
              report |-> add_psi(report, col, psi.psi, psi.psi > threshold_psi)]

chi_square_block_into_ks_tests(report, current_data, col, lib) ==
    LET chi == chi_square_test(current_data, col, lib)
    IN  IF chi.tag = "raise" THEN Raise
        ELSE IF chi.tag = "none" THEN [tag |-> "ok", report |-> report]
        ELSE [tag |-> "ok",
              report |-> add_ks_test(report, col, chi.statistic, chi.p_value,
                                     chi.p_value < threshold_ks)]

\* The Chi-square block of the other branch
chi_square_block(report, current_data, col, lib) ==
    LET chi == chi_square_test(current_data, col, lib)
    IN  IF chi.tag = "raise" THEN Raise
        ELSE IF chi.tag = "none" THEN [tag |-> "ok", report |-> report]
        ELSE [tag |-> "ok",
              report |-> add_chi_square(report, col, chi.statistic, chi.p_value,
                                        chi.p_value < threshold_ks)]

numeric_branch_without_psi(report, current_data, col, lib) ==
    LET a == ks_block(report, current_data, col, lib)
    IN  IF a.tag = "raise" THEN Raise
        ELSE wasserstein_block(a.report, current_data, col, lib)

numeric_branch(report, current_data, col, lib) ==
    LET a == ks_block(report, current_data, col, lib)
    IN  IF a.tag = "raise" THEN Raise
        ELSE LET b == wasserstein_block(a.report, current_data, col, lib)
             IN  IF b.tag = "raise" THEN Raise
                 ELSE psi_block(b.report, current_data, col, lib)

column_step_by_current_type(report, current_data, col, lib) ==
    IF col \notin current_data.columns
    THEN [tag |-> "ok", report |-> add_missing_column(report, col)]
    ELSE IF col \notin current_data.text
    THEN numeric_branch(report, current_data, col, lib)
    ELSE chi_square_block(report, current_data, col, lib)

column_step_unguarded(report, current_data, col, lib) ==
    IF dtype(reference_data, col) \in ContinuousDTypes
    THEN numeric_branch(report, current_data, col, lib)
    ELSE chi_square_block(report, current_data, col, lib)

\* The body of `for col in self.reference_data.columns`
column_step(report, current_data, col, lib) ==
    IF col \notin current_data.columns
    THEN [tag |-> "ok", report |-> add_missing_column(report, col)]
    ELSE IF dtype(reference_data, col) \in ContinuousDTypes
    THEN numeric_branch(report, current_data, col, lib)
    ELSE chi_square_block(report, current_data, col, lib)

RECURSIVE column_loop(_, _, _, _)
column_loop(report, i, current_data, lib) ==
    IF i > Len(reference_data.columns) THEN [tag |-> "ok", report |-> report]
    ELSE LET col  == reference_data.columns[i].name
             step == column_step(report, current_data, col, lib[col])
         IN  IF step.tag = "raise" THEN Raise
             ELSE column_loop(step.report, i + 1, current_data, lib)

\* detect_drift up to the end of the loop: the report built, or Raise
build_report(current_data, lib, now) ==
    column_loop(DriftReport(reference_period, now, len(reference_data),
                            len(current_data), now),
                1, current_data, lib)

\* The tests that gave None for a reference column of the current DataFrame
null_results(current_data, lib) ==
    LET present == columns(reference_data) \cap current_data.columns
    IN  {<<"ks", c>> : c \in {x \in present :
            ks_test(current_data, x, lib[x]) = None}}
        \cup {<<"wasserstein", c>> : c \in {x \in present :
            wasserstein_distance(current_data, x, lib[x]) = None}}
        \cup {<<"psi", c>> : c \in {x \in present :
            population_stability_index(current_data, x, lib[x]) = None}}
        \cup {<<"chi_square", c>> : c \in {x \in present :
            chi_square_test(current_data, x, lib[x]) = None}}

history_prepend(history, id, report) == <<to_dict(id, report)>> \o history

\* self.drift_history.append(report.to_dict())
history_append(history, id, report) == Append(history, to_dict(id, report))

detect_drift_refits_reference(current_data) ==
    /\ reference_stats' =
            [c \in columns(reference_data) \cap current_data.columns |->
                [reference_stats[c] EXCEPT !.distribution.len = len(current_data)]]
    /\ UNCHANGED <<reference_data, threshold_ks, threshold_psi,
                   threshold_wasserstein, reference_period>>

\* detect_drift assigns none of the engine's other attributes
detect_drift_engine_fields(current_data) == UNCHANGED engine_fields

----------------------------------------------------------------------------
(* Actions *)

NoCall == [status |-> "none", id |-> 0]

\* The callers of the engine, and a caller that is not inside detect_drift
Callers == {"a", "b"}

Idle == [pc |-> "idle"]

Init ==
    /\ constructed = FALSE
    /\ reference_data = [columns |-> << >>, rows |-> 0]
    /\ threshold_ks = 0
    /\ threshold_psi = 0
    /\ threshold_wasserstein = 0
    /\ reference_period = ""
    /\ reference_stats = << >>
    /\ drift_history = << >>
    /\ heap = << >>
    /\ last = NoCall
    /\ clock = 0
    /\ n_returned = 0
    /\ adds = 0
    /\ frames = [t \in Callers |-> Idle]

\* DriftDetectionEngine.__init__ with the default thresholds and period
Construct ==
    \E data \in ReferenceDatasets :
        /\ ~constructed
        /\ constructed' = TRUE
        /\ reference_data' = data
        /\ threshold_ks' = DefaultThresholdKs
        /\ threshold_psi' = DefaultThresholdPsi
        /\ threshold_wasserstein' = DefaultThresholdWasserstein
        /\ reference_period' = "2024-12-01"
        /\ reference_stats' = calculate_statistics(data)
        /\ drift_history' = << >>
        /\ UNCHANGED <<heap, last, clock, n_returned, adds, frames>>

\* DriftDetectionEngine.detect_drift
DetectDrift ==
    \E current_data \in CurrentDatasets :
      \E lib \in [current_data.columns -> LibOutcomes] :
        /\ constructed
        /\ clock < MaxCalls
        /\ clock' = clock + 1
        /\ LET res == build_report(current_data, lib, clock + 1)
               id  == Len(heap) + 1
           IN  IF res.tag = "raise"
               THEN /\ last' = [status |-> "raised", id |-> 0,
                                columns |-> current_data.columns,
                                rows |-> len(current_data),
                                text |-> current_data.text]
                    /\ UNCHANGED <<drift_history, heap, n_returned>>
               ELSE /\ heap' = Append(heap, res.report)
                    /\ drift_history' = history_append(drift_history, id, res.report)
                    /\ last' = [status |-> "returned", id |-> id,
                                columns |-> current_data.columns,
                                rows |-> len(current_data),
                                nulls |-> null_results(current_data, lib)]
                    /\ n_returned' = n_returned + 1
        /\ detect_drift_engine_fields(current_data)
        /\ UNCHANGED <<constructed, adds, frames>>

Next == Construct \/ DetectDrift

Spec == Init /\ [][Next]_vars

----------------------------------------------------------------------------
(* The four tests called directly, as the unit tests do; `last` keeps what *)
(* the call gave back                                                      *)

\* none of the four test methods assigns an attribute of the engine
test_engine_fields(current_data, column) == UNCHANGED engine_fields

\* The current DataFrames of the direct calls: numeric columns only
DirectDatasets == {d \in CurrentDatasets : d.text = {}}

TestCall(name, result, current_data, column) ==
    /\ constructed
    /\ clock < MaxCalls
    /\ clock' = clock + 1
    /\ last' = [status |-> name, id |-> 0, column |-> column, result |-> result]
    /\ test_engine_fields(current_data, column)
    /\ UNCHANGED <<constructed, drift_history, heap, n_returned, adds, frames>>

KsTest ==
    \E current_data \in DirectDatasets, column \in CurrentColumnNames,
       lib \in LibOutcomes :
        TestCall("ks_test", ks_test(current_data, column, lib), current_data, column)

WassersteinDistance ==
    \E current_data \in DirectDatasets, column \in CurrentColumnNames,
       lib \in LibOutcomes :
        TestCall("wasserstein_distance",
                 wasserstein_distance(current_data, column, lib), current_data, column)

PopulationStabilityIndex ==
    \E current_data \in DirectDatasets, column \in CurrentColumnNames,
       lib \in LibOutcomes :
        TestCall("population_stability_index",
                 population_stability_index(current_data, column, lib),
                 current_data, column)

ChiSquareTest ==
    \E current_data \in DirectDatasets, column \in CurrentColumnNames,
       lib \in LibOutcomes :
        TestCall("chi_square_test", chi_square_test(current_data, column, lib),
                 current_data, column)

NextTests ==
    \/ Construct
    \/ DetectDrift
    \/ KsTest
    \/ WassersteinDistance
    \/ PopulationStabilityIndex
    \/ ChiSquareTest

SpecTests == Init /\ [][NextTests]_vars

----------------------------------------------------------------------------
(* detect_drift on datasets whose values are given: one float64 column,    *)
(* the Wasserstein distance computed from the values as the code does, by  *)
(* drawing both samples with numpy's global generator; ks_2samp and the    *)
(* PSI histogram stay drawn from LibOutcomes.                              *)

SampleValues == {0, 1}

SampleLengths == {1, 2}

\* The value sequences of a column, in whole units
Samples == UNION {[1..n -> SampleValues] : n \in SampleLengths}

choice_with_replacement(a, size) ==
    {[i \in 1..size |-> a[f[i]]] : f \in [1..size -> 1..Len(a)]}

\* np.random.choice(a, size, replace=False): the values at `size` distinct
\* positions of a, in any order, every such draw being possible
choice(a, size) ==
    {[i \in 1..size |-> a[f[i]]] :
        f \in {g \in [1..size -> 1..Len(a)] :
                  \A i, j \in 1..size : i # j => g[i] # g[j]}}

Abs(x) == IF x < 0 THEN -x ELSE x

RECURSIVE Sum(_, _)
Sum(f, S) ==
    IF S = {} THEN 0
    ELSE LET x == CHOOSE y \in S : TRUE IN f[x] + Sum(f, S \ {x})

\* scipy.stats.wasserstein_distance(u, v): the integral of the distance
\* between the two empirical distribution functions, in units of 1e-7
scipy_wasserstein_distance(u, v) ==
    LET cdf_count(s, x) == Cardinality({i \in 1..Len(s) : s[i] <= x})
        all_values == {u[i] : i \in 1..Len(u)} \cup {v[i] : i \in 1..Len(v)}
        lo == CHOOSE x \in all_values : \A y \in all_values : x <= y
        hi == CHOOSE x \in all_values : \A y \in all_values : y <= x
        gap == [x \in lo..(hi - 1) |->
                   Abs(cdf_count(u, x) * Len(v) - cdf_count(v, x) * Len(u))]
    IN  (Sum(gap, lo..(hi - 1)) * Unit) \div (Len(u) * Len(v))

\* Lines 126-128 of wasserstein_distance: the two samples that are compared
wasserstein_samples(reference_dist, current_dist) ==
    LET min_len == IF Len(reference_dist) < Len(current_dist)
                   THEN Len(reference_dist) ELSE Len(current_dist)
    IN  {[reference_sample |-> r, current_sample |-> c] :
            r \in choice(reference_dist, min_len),
            c \in choice(current_dist, min_len)}

\* What lines 126-131 of wasserstein_distance can return for two samples
wasserstein_draws(reference_dist, current_dist) ==
    {scipy_wasserstein_distance(s.reference_sample, s.current_sample) :
        s \in wasserstein_samples(reference_dist, current_dist)}

SampledColumn == ColumnNames[1]

\* DriftDetectionEngine.__init__ on a one-column float64 DataFrame
ConstructSampled ==
    \E reference_dist \in Samples :
        LET data == [columns |-> <<[name |-> SampledColumn, dtype |-> "float64"]>>,
                     rows |-> Len(reference_dist)]
        IN  /\ ~constructed
            /\ constructed' = TRUE
            /\ reference_data' = data
            /\ threshold_ks' = DefaultThresholdKs
            /\ threshold_psi' = DefaultThresholdPsi
            /\ threshold_wasserstein' = DefaultThresholdWasserstein
            /\ reference_period' = "2024-12-01"
            /\ reference_stats' =
                    [c \in columns(data) |->
                        [calculate_statistics(data)[c] EXCEPT
                            !.distribution = [values_of |-> c,
                                              len |-> Len(reference_dist),
                                              values |-> reference_dist]]]
            /\ drift_history' = << >>
            /\ UNCHANGED <<heap, last, clock, n_returned, adds, frames>>

\* DriftDetectionEngine.detect_drift on a DataFrame with that column
DetectDriftSampled ==
    /\ constructed
    /\ \E current_dist \in Samples, lib \in LibOutcomes :
      \E ws \in wasserstein_draws(reference_stats[SampledColumn].distribution.values,
                                  current_dist) :
        LET current_data == [columns |-> {SampledColumn}, rows |-> Len(current_dist),
                             text |-> {}]
            drawn == [c \in current_data.columns |-> [lib EXCEPT !.ws = ws]]
            res == build_report(current_data, drawn, clock + 1)
            id  == Len(heap) + 1
        IN  /\ clock < MaxCalls
            /\ clock' = clock + 1
            /\ heap' = Append(heap, res.report)
            /\ drift_history' = history_append(drift_history, id, res.report)
            /\ last' = [status |-> "returned", id |-> id,
                        columns |-> current_data.columns,
                        rows |-> len(current_data),
                        nulls |-> null_results(current_data, drawn),
                        current_dist |-> current_dist,
                        lib |-> [ks_statistic |-> lib.ks_statistic,
                                 ks_p |-> lib.ks_p, psi |-> lib.psi]]
            /\ n_returned' = n_returned + 1
            /\ detect_drift_engine_fields(current_data)
            /\ UNCHANGED <<constructed, adds, frames>>

NextSampled == ConstructSampled \/ DetectDriftSampled

SpecSampled == Init /\ [][NextSampled]_vars

\* The current samples of a direct call of wasserstein_distance: up to one
\* value longer than the reference sample
CurrentLengths == {1, 2, 3}
CurrentSamples == UNION {[1..n -> SampleValues] : n \in CurrentLengths}

\* DriftDetectionEngine.wasserstein_distance called on a DataFrame with that
\* column; `last` keeps the two samples that were compared
WassersteinDistanceSampled ==
    /\ constructed
    /\ \E current_dist \in CurrentSamples :
        LET reference_dist == reference_stats[SampledColumn].distribution.values
        IN  \E s \in wasserstein_samples(reference_dist, current_dist) :
              /\ last' = [status |-> "wasserstein_distance", id |-> 0,
                          reference_dist |-> reference_dist,
                          current_dist |-> current_dist,
                          reference_sample |-> s.reference_sample,
                          current_sample |-> s.current_sample,
                          distance |-> scipy_wasserstein_distance(s.reference_sample,
                                                                  s.current_sample)]
              /\ test_engine_fields(
                     [columns |-> {SampledColumn}, rows |-> Len(current_dist),
                      text |-> {}], SampledColumn)
              /\ UNCHANGED <<constructed, drift_history, heap, clock, n_returned,
                             adds, frames>>

NextWasserstein == ConstructSampled \/ WassersteinDistanceSampled

SpecWasserstein == Init /\ [][NextWasserstein]_vars

----------------------------------------------------------------------------
(* detect_drift(R) on an engine built from R: the current DataFrame is the *)
(* reference DataFrame itself.  ks_2samp of a sample with itself gives     *)
(* statistic 0 and p-value 1, two equal histograms give a PSI of 0, a      *)
(* contingency table of two equal rows gives chi2 0 and p-value 1.         *)

IdenticalOutcome ==
    CHOOSE l \in LibOutcomes :
        /\ l.ks_statistic = 0 /\ l.ks_p = Unit /\ l.ws = 0 /\ l.psi = 0
        /\ l.chi2 = 0 /\ l.chi2_p = Unit /\ ~l.chi2_fails

\* The reference DataFrame seen as a current DataFrame
as_current(data) ==
    [columns |-> columns(data), rows |-> len(data),
     text |-> {c \in columns(data) : dtype(data, c) \in CategoricalDTypes}]

\* The engine was built by ConstructSampled
has_values ==
    /\ columns(reference_data) = {SampledColumn}
    /\ "values" \in DOMAIN reference_stats[SampledColumn].distribution

\* detect_drift(self.reference_data) with the outcome `lib` of the routines
detect_drift_on_reference(lib) ==
    LET current_data == as_current(reference_data)
        res == build_report(current_data, lib, clock + 1)
        id  == Len(heap) + 1
    IN  /\ clock < MaxCalls
        /\ clock' = clock + 1
        /\ IF res.tag = "raise"
           THEN /\ last' = [status |-> "raised", id |-> 0,
                            columns |-> current_data.columns,
                            rows |-> len(current_data),
                            text |-> current_data.text,
                            on |-> "reference"]
                /\ UNCHANGED <<drift_history, heap, n_returned>>
           ELSE /\ heap' = Append(heap, res.report)
                /\ drift_history' = history_append(drift_history, id, res.report)
                /\ last' = [status |-> "returned", id |-> id,
                            columns |-> current_data.columns,
                            rows |-> len(current_data),
                            nulls |-> null_results(current_data, lib),
                            on |-> "reference"]
                /\ n_returned' = n_returned + 1
        /\ detect_drift_engine_fields(current_data)
        /\ UNCHANGED <<constructed, adds, frames>>

\* on a reference given by its schema and number of rows
DetectDriftOnReference ==
    /\ constructed
    /\ ~has_values
    /\ detect_drift_on_reference([c \in columns(reference_data) |-> IdenticalOutcome])

\* on a reference given by its values: the Wasserstein distance is computed
\* from the two draws
DetectDriftOnSampledReference ==
    /\ constructed
    /\ has_values
    /\ \E ws \in wasserstein_draws(reference_stats[SampledColumn].distribution.values,
                                    reference_stats[SampledColumn].distribution.values) :
          detect_drift_on_reference(
              [c \in columns(reference_data) |-> [IdenticalOutcome EXCEPT !.ws = ws]])

NextIdentity ==
    \/ Construct
    \/ ConstructSampled
    \/ DetectDrift
    \/ DetectDriftOnReference
    \/ DetectDriftOnSampledReference

SpecIdentity == Init /\ [][NextIdentity]_vars

----------------------------------------------------------------------------
(* detect_drift called by several threads on one engine.  A call is its    *)
(* frame: the local variables current_data and report, and the position in *)
(* the loop.  The threads interleave between the statements that touch     *)
(* the engine; list.append is one atomic step of the interpreter.          *)

shared_report(hp) == 1

\* `report = DriftReport(...)`: a new object, held in a local variable
local_report(hp) == Len(hp) + 1

\* lines 209-214: the call starts and allocates its report
BeginDetectDrift(t) ==
    \E current_data \in DirectDatasets, lib \in LibOutcomes :
        /\ constructed
        /\ frames[t].pc = "idle"
        /\ clock' = clock + 1
        /\ heap' = Append(heap, DriftReport(reference_period, clock + 1,
                                            len(reference_data), len(current_data),
                                            clock + 1))
        /\ frames' = [frames EXCEPT ![t] =
                        [pc |-> "loop", report |-> local_report(heap), i |-> 1,
                         current_data |-> current_data,
                         lib |-> [c \in current_data.columns |-> lib],
                         now |-> clock + 1]]
        /\ UNCHANGED <<constructed, engine_fields, drift_history, last,
                       n_returned, adds>>

\* lines 217-246: one iteration of the loop, on the call's own report
ColumnStep(t) ==
    /\ frames[t].pc = "loop"
    /\ frames[t].i <= Len(reference_data.columns)
    /\ LET f    == frames[t]
           col  == reference_data.columns[f.i].name
           step == column_step(heap[f.report], f.current_data, col, f.lib[col])
       IN  IF step.tag = "raise"
           THEN /\ frames' = [frames EXCEPT ![t].pc = "raised"]
                /\ UNCHANGED heap
           ELSE /\ heap' = [heap EXCEPT ![f.report] = step.report]
                /\ frames' = [frames EXCEPT ![t].i = @ + 1]
    /\ UNCHANGED <<constructed, engine_fields, drift_history, last, clock,
                   n_returned, adds>>

\* lines 249-251: the report is appended to the history and returned
AppendAndReturn(t) ==
    /\ frames[t].pc = "loop"
    /\ frames[t].i > Len(reference_data.columns)
    /\ drift_history' = history_append(drift_history, frames[t].report,
                                       heap[frames[t].report])
    /\ frames' = [frames EXCEPT ![t].pc = "returned"]
    /\ n_returned' = n_returned + 1
    /\ UNCHANGED <<constructed, engine_fields, heap, last, clock, adds>>

NextConcurrent ==
    \/ Construct
    \/ \E t \in Callers : BeginDetectDrift(t)
    \/ \E t \in Callers : ColumnStep(t)
    \/ \E t \in Callers : AppendAndReturn(t)

SpecConcurrent == Init /\ [][NextConcurrent]_vars

----------------------------------------------------------------------------
(* A caller of the DriftReport methods.  The arguments are the caller's:   *)
(* any column, any flag, and values that round6 changes or that sit on a   *)
(* PSI band limit.                                                         *)

AddColumns == CurrentColumnNames

AddStatistics == {[statistic |-> 1500000, p_value |-> 199996]}

AddDistances == {1000004}

AddPsiValues == {999996, 1000000, 2500000}

AddKsTestOn(id, cap) ==
    \E column \in AddColumns, a \in AddStatistics, drift_detected \in BOOLEAN :
        /\ adds < cap
        /\ heap' = [heap EXCEPT ![id] =
                        add_ks_test(@, column, a.statistic, a.p_value, drift_detected)]
        /\ adds' = adds + 1

AddWassersteinOn(id, cap) ==
    \E column \in AddColumns, distance \in AddDistances, drift_detected \in BOOLEAN :
        /\ adds < cap
        /\ heap' = [heap EXCEPT ![id] =
                        add_wasserstein(@, column, distance, drift_detected)]
        /\ adds' = adds + 1

AddPsiOn(id, cap) ==
    \E column \in AddColumns, psi_value \in AddPsiValues, drift_detected \in BOOLEAN :
        /\ adds < cap
        /\ heap' = [heap EXCEPT ![id] = add_psi(@, column, psi_value, drift_detected)]
        /\ adds' = adds + 1

AddChiSquareOn(id, cap) ==
    \E column \in AddColumns, a \in AddStatistics, drift_detected \in BOOLEAN :
        /\ adds < cap
        /\ heap' = [heap EXCEPT ![id] =
                        add_chi_square(@, column, a.statistic, a.p_value, drift_detected)]
        /\ adds' = adds + 1

AddMissingColumnOn(id, cap) ==
    \E column \in AddColumns :
        /\ adds < cap
        /\ heap' = [heap EXCEPT ![id] = add_missing_column(@, column)]
        /\ adds' = adds + 1

report_frame ==
    UNCHANGED <<constructed, engine_fields, drift_history, last, clock, n_returned,
                frames>>

(* A DriftReport built by hand, as the unit tests do *)

InitReport ==
    /\ constructed = FALSE
    /\ reference_data = [columns |-> << >>, rows |-> 0]
    /\ threshold_ks = 0
    /\ threshold_psi = 0
    /\ threshold_wasserstein = 0
    /\ reference_period = ""
    /\ reference_stats = << >>
    /\ drift_history = << >>
    /\ heap = <<DriftReport("2024-01-01", "2024-12-05", 365, 100, 0)>>
    /\ last = NoCall
    /\ clock = 0
    /\ n_returned = 0
    /\ adds = 0
    /\ frames = [t \in Callers |-> Idle]

AddKsTest == AddKsTestOn(1, MaxAdds) /\ report_frame

AddWasserstein == AddWassersteinOn(1, MaxAdds) /\ report_frame

AddPsi == AddPsiOn(1, MaxAdds) /\ report_frame

AddChiSquare == AddChiSquareOn(1, MaxAdds) /\ report_frame

AddMissingColumn == AddMissingColumnOn(1, MaxAdds) /\ report_frame

NextReport == AddKsTest \/ AddWasserstein \/ AddPsi \/ AddChiSquare \/ AddMissingColumn

SpecReport == InitReport /\ [][NextReport]_vars

(* to_json of the report built by hand, and the document parsed back.  A   *)
(* JSON text is the tree of its tokens; a parsed value carries its Python  *)
(* type.                                                                   *)

JsonLiteral(s) == [t |-> "literal", v |-> s]

JsonString(s) == [t |-> "string", v |-> s]

JsonNumber(n) == [t |-> "number", v |-> n]

JsonObject(members) == [t |-> "object", v |-> members]

JsonArray(items) == [t |-> "array", v |-> items]

json_dumps_bool_by_default(b) == JsonString(IF b THEN "True" ELSE "False")

\* json.dumps of a Python bool
json_dumps_bool(b) == JsonLiteral(IF b THEN "true" ELSE "false")

\* json.dumps of one entry of a test collection
json_dumps_entry(e) ==
    JsonObject([f \in DOMAIN e |->
        IF f = "drift_detected" THEN json_dumps_bool(e[f])
        ELSE IF f \in {"interpretation", "severity"} THEN JsonString(e[f])
        ELSE JsonNumber(e[f])])

\* json.dumps of a test collection: an object keyed by column name
json_dumps_tests(d) ==
    JsonObject([c \in DictKeys(d) |-> json_dumps_entry(DictGet(d, c))])

\* DriftReport.to_json: json.dumps(self.to_dict(), indent=2, default=str)
to_json(self) ==
    JsonObject(
        [timestamp         |-> JsonString(self.timestamp),
         reference_period  |-> JsonString(self.reference_period),
         current_period    |-> JsonString(self.current_period),
         reference_size    |-> JsonNumber(self.reference_size),
         current_size      |-> JsonNumber(self.current_size),
         drift_detected    |-> json_dumps_bool(self.drift_detected),
         overall_severity  |-> JsonString(self.overall_severity),
         ks_tests          |-> json_dumps_tests(self.ks_tests),
         wasserstein_tests |-> json_dumps_tests(self.wasserstein_tests),
         psi_tests         |-> json_dumps_tests(self.psi_tests),
         chi_square_tests  |-> json_dumps_tests(self.chi_square_tests),
         missing_columns   |-> JsonArray([i \in 1..Len(self.missing_columns) |->
                                            JsonString(self.missing_columns[i])])])

PyBool(b) == [type |-> "bool", v |-> b]

PyStr(s) == [type |-> "str", v |-> s]

PyNumber(n) == [type |-> "number", v |-> n]

\* json.loads
RECURSIVE json_loads(_)
json_loads(j) ==
    CASE j.t = "literal" -> PyBool(j.v = "true")
      [] j.t = "string"  -> PyStr(j.v)
      [] j.t = "number"  -> PyNumber(j.v)
      [] j.t = "object"  -> [type |-> "dict",
                             v |-> [k \in DOMAIN j.v |-> json_loads(j.v[k])]]
      [] j.t = "array"   -> [type |-> "list",
                             v |-> [i \in DOMAIN j.v |-> json_loads(j.v[i])]]

\* f"{x:.6f}": x with 6 decimals
format6(x) == round6(x)

section_always(heading, items, lines) ==
    <<[kind |-> heading, count |-> Len(items)]>> \o lines

\* `if self.<tests>:` followed by the heading and one line per item
section(heading, items, lines) ==
    IF items = << >> THEN << >>
    ELSE <<[kind |-> heading, count |-> Len(items)]>> \o lines

status_of(result) == IF result.drift_detected THEN "DRIFT" ELSE "OK"

\* DriftReport.summary: the lines that are joined
summary(self) ==
    LET MissingLine(col) == [kind |-> "missing", col |-> col]
        KsLine(item) == [kind |-> "ks", col |-> item.key,
                         status |-> status_of(item.value),
                         p |-> format6(item.value.p_value)]
        WsLine(item) == [kind |-> "wasserstein", col |-> item.key,
                         status |-> status_of(item.value),
                         dist |-> format6(item.value.distance)]
        PsiLine(item) == [kind |-> "psi", col |-> item.key,
                          status |-> IF item.value.drift_detected
                                     THEN <<"DRIFT", item.value.severity>> ELSE <<"OK">>,
                          psi |-> format6(item.value.psi)]
        ChiLine(item) == [kind |-> "chi_square", col |-> item.key,
                          status |-> status_of(item.value),
                          p |-> format6(item.value.p_value)]
    IN  <<[kind |-> "rule"],
          [kind |-> "title"],
          [kind |-> "rule"],
          [kind |-> "reference_period", period |-> self.reference_period,
           records |-> self.reference_size],
          [kind |-> "current_period", period |-> self.current_period,
           records |-> self.current_size],
          [kind |-> "timestamp", timestamp |-> self.timestamp],
          [kind |-> "verdict",
           text |-> IF self.drift_detected THEN "DRIFT DETECTED" ELSE "NO DRIFT DETECTED"],
          [kind |-> "severity", level |-> self.overall_severity]>>
        \o section("missing_heading", self.missing_columns,
                   [i \in 1..Len(self.missing_columns) |->
                       MissingLine(self.missing_columns[i])])
        \o section("ks_heading", self.ks_tests,
                   [i \in 1..Len(self.ks_tests) |-> KsLine(self.ks_tests[i])])
        \o section("wasserstein_heading", self.wasserstein_tests,
                   [i \in 1..Len(self.wasserstein_tests) |->
                       WsLine(self.wasserstein_tests[i])])
        \o section("psi_heading", self.psi_tests,
                   [i \in 1..Len(self.psi_tests) |-> PsiLine(self.psi_tests[i])])
        \o section("chi_square_heading", self.chi_square_tests,
                   [i \in 1..Len(self.chi_square_tests) |->
                       ChiLine(self.chi_square_tests[i])])
        \o <<[kind |-> "rule"]>>

\* report.summary()
Summary ==
    /\ last' = [status |-> "summary", id |-> 1, lines |-> summary(heap[1]),
                report |-> heap[1]]
    /\ UNCHANGED <<constructed, engine_fields, drift_history, heap, clock,
                   n_returned, adds, frames>>

\* data = json.loads(report.to_json()), next to report.to_dict()
ToJson ==
    /\ last' = [status |-> "to_json", id |-> 1,
                parsed |-> json_loads(to_json(heap[1])),
                dict |-> to_dict(1, heap[1])]
    /\ UNCHANGED <<constructed, engine_fields, drift_history, heap, clock,
                   n_returned, adds, frames>>

NextSerialize ==
    \/ AddKsTest
    \/ AddWasserstein
    \/ AddPsi
    \/ AddChiSquare
    \/ AddMissingColumn
    \/ ToJson
    \/ Summary

SpecSerialize == InitReport /\ [][NextSerialize]_vars

(* The caller of detect_drift keeps the returned DriftReport and calls its *)
(* methods                                                                 *)

CallerAddKsTest ==
    last.status = "returned" /\ AddKsTestOn(last.id, MaxCallerAdds) /\ report_frame

CallerAddWasserstein ==
    last.status = "returned" /\ AddWassersteinOn(last.id, MaxCallerAdds) /\ report_frame

CallerAddPsi ==
    last.status = "returned" /\ AddPsiOn(last.id, MaxCallerAdds) /\ report_frame

CallerAddChiSquare ==
    last.status = "returned" /\ AddChiSquareOn(last.id, MaxCallerAdds) /\ report_frame

CallerAddMissingColumn ==
    last.status = "returned" /\ AddMissingColumnOn(last.id, MaxCallerAdds) /\ report_frame

NextCaller ==
    \/ Construct
    \/ DetectDrift
    \/ CallerAddKsTest
    \/ CallerAddWasserstein
    \/ CallerAddPsi
    \/ CallerAddChiSquare
    \/ CallerAddMissingColumn

SpecCaller == Init /\ [][NextCaller]_vars

----------------------------------------------------------------------------
(* scripts/check_drift_daily.py: one run of main().  Reading the CSV file  *)
(* gives a DataFrame, or None when the file is not found, or raises on a   *)
(* file pandas cannot read; writing a file succeeds or raises.             *)

LoadOutcomes == {"loaded", "not_found", "unreadable"}

run_result_ignoring_drift(drift_detected) == "True"

\* `return return_status == 0`
run_result(drift_detected) == IF drift_detected THEN "False" ELSE "True"

\* main: sys.exit(0 if success else 1), and 2 on an exception
main(success) ==
    IF success = "raised" THEN 2
    ELSE IF success = "True" THEN 0
    ELSE 1

ScriptExit(code, loaded, completed, saved, id) ==
    [status |-> "exit", id |-> id, code |-> code, loaded |-> loaded,
     completed |-> completed, saved |-> saved]

\* run_drift_detection, lines 62-85: the import, the two loads and the engine
ScriptLoad ==
    \E imported \in BOOLEAN, baseline \in LoadOutcomes, current \in LoadOutcomes,
       data \in ReferenceDatasets :
        /\ ~constructed
        /\ last = NoCall
        /\ IF ~imported \/ baseline = "unreadable" \/ current = "unreadable"
           THEN /\ last' = ScriptExit(main("raised"), FALSE, FALSE, FALSE, 0)
                /\ UNCHANGED <<constructed, engine_fields>>
           ELSE IF baseline = "not_found" \/ current = "not_found"
           THEN /\ last' = ScriptExit(main("False"), FALSE, FALSE, FALSE, 0)
                /\ UNCHANGED <<constructed, engine_fields>>
           ELSE /\ last' = [status |-> "script", id |-> 0]
                /\ constructed' = TRUE
                /\ reference_data' = data
                /\ threshold_ks' = DefaultThresholdKs
                /\ threshold_psi' = DefaultThresholdPsi
                /\ threshold_wasserstein' = DefaultThresholdWasserstein
                /\ reference_period' = "Last 365 days"
                /\ reference_stats' = calculate_statistics(data)
        /\ UNCHANGED <<drift_history, heap, clock, n_returned, adds, frames>>

\* run_drift_detection, lines 89-142, and main's exit
ScriptDetect ==
    \E current_data \in CurrentDatasets, report_saved \in BOOLEAN,
       summary_saved \in BOOLEAN :
      \E lib \in [current_data.columns -> LibOutcomes] :
        /\ last.status = "script"
        /\ clock' = clock + 1
        /\ LET res == build_report(current_data, lib, clock + 1)
               id  == Len(heap) + 1
           IN  IF res.tag = "raise"
               THEN /\ last' = ScriptExit(main("False"), TRUE, FALSE, FALSE, 0)
                    /\ UNCHANGED <<drift_history, heap, n_returned>>
               ELSE /\ heap' = Append(heap, res.report)
                    /\ drift_history' = history_append(drift_history, id, res.report)
                    /\ n_returned' = n_returned + 1
                    /\ last' = ScriptExit(
                                  main(IF report_saved /\ summary_saved
                                       THEN run_result(res.report.drift_detected)
                                       ELSE "False"),
                                  TRUE, TRUE, report_saved /\ summary_saved, id)
        /\ detect_drift_engine_fields(current_data)
        /\ UNCHANGED <<constructed, adds, frames>>

NextDaily == ScriptLoad \/ ScriptDetect

SpecDaily == Init /\ [][NextDaily]_vars

-----------------------------------------------------------------------------
(* scripts/check_drift_daily.py, create_alerts: the alerts for the summary  *)
(* of a drift report, the dict that run_drift_detection builds from the     *)
(* report and saves.                                                        *)

\* The columns whose PSI entry is flagged, in dict order
RECURSIVE psi_flagged(_)
psi_flagged(d) ==
    IF d = << >> THEN << >>
    ELSE (IF Head(d).value.drift_detected THEN <<Head(d).key>> ELSE << >>)
            \o psi_flagged(Tail(d))

\* run_drift_detection, lines 111-127: the summary dict of a report
summary_dict(report, now) ==
    [timestamp         |-> now,
     drift_detected    |-> report.drift_detected,
     severity          |-> report.overall_severity,
     reference_size    |-> report.reference_size,
     current_size      |-> report.current_size,
     tests_run         |-> [ks_tests          |-> Len(report.ks_tests),
                            psi_tests         |-> Len(report.psi_tests),
                            wasserstein_tests |-> Len(report.wasserstein_tests),
                            chi_square_tests  |-> Len(report.chi_square_tests)],
     features_affected |-> psi_flagged(report.psi_tests)]

\* `"CRITICAL" if report_dict['severity'] == "HIGH" else "WARNING"`
alert_level(severity) == IF severity = "HIGH" THEN "CRITICAL" ELSE "WARNING"

create_alerts(report_dict, now) ==
    LET alerts == IF report_dict.drift_detected
                  THEN <<[level             |-> alert_level(report_dict.severity),
                          message           |-> <<"Data drift detected with",
                                                  report_dict.severity, "severity">>,
                          features_affected |-> report_dict.features_affected,
                          action_required   |-> TRUE]>>
                  ELSE << >>
    IN  [timestamp |-> now, alerts |-> alerts, total_alerts |-> Len(alerts)]

\* create_alerts called on the summary of a report that detect_drift
\* returned; the import of alert_manager at its head can fail
CreateAlerts ==
    \E id \in 1..Len(heap), imported \in BOOLEAN :
        /\ last' = IF imported
                   THEN [status |-> "create_alerts", id |-> id,
                         report_dict |-> summary_dict(heap[id], clock),
                         result |-> create_alerts(summary_dict(heap[id], clock), clock)]
                   ELSE [status |-> "create_alerts_raised", id |-> id]
        /\ UNCHANGED <<constructed, engine_fields, drift_history, heap, clock,
                       n_returned, adds, frames>>

NextAlerts == Construct \/ DetectDrift \/ CreateAlerts

SpecAlerts == Init /\ [][NextAlerts]_vars

----------------------------------------------------------------------------
(* Properties *)

Returned == last.status = "returned"

\* The names of the reference columns, in column order
ReferenceNames ==
    [i \in 1..Len(reference_data.columns) |-> reference_data.columns[i].name]

SeqToSet(q) == {q[i] : i \in 1..Len(q)}

TestedColumns(r) ==
    DictKeys(r.ks_tests) \cup DictKeys(r.wasserstein_tests)
        \cup DictKeys(r.psi_tests) \cup DictKeys(r.chi_square_tests)

AnyFlagged(d) == \E i \in 1..Len(d) : d[i].value.drift_detected

\* A history entry with its references followed
Resolve(e, hp) ==
    [e EXCEPT !.ks_tests          = hp[@.ref][@.attr],
              !.wasserstein_tests = hp[@.ref][@.attr],
              !.psi_tests         = hp[@.ref][@.attr],
              !.chi_square_tests  = hp[@.ref][@.attr],
              !.missing_columns   = hp[@.ref][@.attr]]

HistoryView(h, hp) == [i \in 1..Len(h) |-> Resolve(h[i], hp)]

\* C1: no add_* call moves overall_severity of a report to a lower level of
\* LOW < MEDIUM < HIGH < CRITICAL.
C1_SeverityNeverDecreases ==
    [][\A id \in DOMAIN heap :
          SeverityRank(heap'[id].overall_severity)
              >= SeverityRank(heap[id].overall_severity)]_vars

\* C2: a report returned by detect_drift with a non-empty missing_columns has
\* overall_severity CRITICAL, whatever the order of the reference columns.
C2_MissingMeansCritical ==
    (Returned /\ heap[last.id].missing_columns # << >>)
        => heap[last.id].overall_severity = "CRITICAL"

\* C3: in every state of a report, drift_detected is true iff an entry stored
\* in one of the four test collections is flagged or missing_columns is not
\* empty.
C3_DriftFlagIffEvidence ==
    \A id \in DOMAIN heap :
        heap[id].drift_detected <=>
            \/ AnyFlagged(heap[id].ks_tests)
            \/ AnyFlagged(heap[id].wasserstein_tests)
            \/ AnyFlagged(heap[id].psi_tests)
            \/ AnyFlagged(heap[id].chi_square_tests)
            \/ heap[id].missing_columns # << >>

\* C4: the report returned by detect_drift lists in missing_columns exactly
\* the reference columns absent from the current dataset, once each and in
\* reference order, and none of them has an entry in a test collection.
C4_MissingColumnsExact ==
    Returned =>
        LET r == heap[last.id]
            Absent(c) == c \notin last.columns
        IN  /\ r.missing_columns = SelectSeq(ReferenceNames, Absent)
            /\ SeqToSet(r.missing_columns) \cap TestedColumns(r) = {}

C4_Witness ==
    /\ Returned
    /\ Len(heap[last.id].missing_columns) = 1
    /\ TestedColumns(heap[last.id]) # {}

\* A numeric reference column of the last call whose sample made the numeric
\* routines fail
FailingColumn(c) ==
    /\ c \in last.columns
    /\ dtype(reference_data, c) \in ContinuousDTypes
    /\ \/ c \in last.text
       \/ last.rows = 0
       \/ len(reference_data) = 0

\* C5: a missing reference column never makes detect_drift raise: a call
\* raises only because of a column that is present, and in a returned report
\* every numeric column that comes after a missing one has its three entries.
C5_MissingColumnNotRaised ==
    /\ last.status = "raised" => \E c \in columns(reference_data) : FailingColumn(c)
    /\ Returned =>
          \A i, j \in 1..Len(ReferenceNames) :
              ( /\ i < j
                /\ ReferenceNames[i] \notin last.columns
                /\ ReferenceNames[j] \in last.columns
                /\ reference_data.columns[j].dtype \in ContinuousDTypes )
              => /\ DictHas(heap[last.id].ks_tests, ReferenceNames[j])
                 /\ DictHas(heap[last.id].wasserstein_tests, ReferenceNames[j])
                 /\ DictHas(heap[last.id].psi_tests, ReferenceNames[j])

C5_Witness ==
    /\ Returned
    /\ Len(ReferenceNames) = 2
    /\ heap[last.id].missing_columns = <<ReferenceNames[1]>>
    /\ DictHas(heap[last.id].ks_tests, ReferenceNames[2])
    /\ DictHas(heap[last.id].psi_tests, ReferenceNames[2])

\* C6: drift_history has one entry per detect_drift call that returned, the
\* i-th entry being the serialized report of the i-th such call, and a call
\* only appends: the entries already there keep their place and content.
C6_HistoryAppendOnly ==
    /\ [](/\ Len(drift_history) = n_returned
          /\ \A i \in 1..Len(drift_history) :
                Resolve(drift_history[i], heap) = heap[i])
    /\ [][IF n_returned' # n_returned
          THEN HistoryView(drift_history', heap')
                   = Append(HistoryView(drift_history, heap), heap'[last'.id])
          ELSE HistoryView(drift_history', heap') = HistoryView(drift_history, heap)]_vars

C6_Witness ==
    /\ n_returned = 2
    /\ Len(drift_history) = 2
    /\ heap[1].overall_severity # heap[2].overall_severity

\* C7: the entry detect_drift appended to drift_history is an independent
\* copy: an add_* call on the returned report leaves the entry's test
\* collections and missing_columns as they were.
C7_HistoryEntryIndependent ==
    [][adds' # adds =>
          HistoryView(drift_history', heap') = HistoryView(drift_history, heap)]_vars

\* C8: reference_stats is what the constructor computed from the reference
\* dataset, and no detect_drift, ks_test, wasserstein_distance,
\* population_stability_index or chi_square_test call changes it, the
\* reference dataset or a threshold.
C8_ReferenceFrozen ==
    /\ [](constructed => reference_stats = calculate_statistics(reference_data))
    /\ [][constructed =>
             UNCHANGED <<reference_stats, reference_data, threshold_ks,
                         threshold_psi, threshold_wasserstein>>]_vars

C8_Witness ==
    /\ constructed
    /\ Len(reference_data.columns) = 2
    /\ n_returned = 1
    /\ clock = 2
    /\ last.status = "ks_test"
    /\ last.result.tag = "value"

\* C9: no engine exists whose reference dataset has zero rows or zero
\* columns: the constructor fails on it.
C9_EmptyReferenceRefused ==
    constructed => (len(reference_data) > 0 /\ Len(reference_data.columns) > 0)

\* C10: detect_drift never raises on a constructed engine, whatever the
\* current dataset.
C10_DetectDriftNeverRaises == last.status # "raised"

\* C11: a failing computation of one test becomes a null result of that test
\* only: a detect_drift call with a column whose numeric routines fail still
\* returns, and a returned report in which a categorical column has no
\* Chi-square entry still has the three entries of every numeric column that
\* is present.
C11_FailureBecomesNull ==
    /\ \A c \in columns(reference_data) :
          (last.status = "raised" => ~FailingColumn(c))
    /\ Returned =>
          \A c, d \in columns(reference_data) \cap last.columns :
              ( /\ dtype(reference_data, c) \in CategoricalDTypes
                /\ ~DictHas(heap[last.id].chi_square_tests, c)
                /\ dtype(reference_data, d) \in ContinuousDTypes )
              => /\ DictHas(heap[last.id].ks_tests, d)
                 /\ DictHas(heap[last.id].wasserstein_tests, d)
                 /\ DictHas(heap[last.id].psi_tests, d)

\* The kind of a reference column as the constructor recorded it in
\* reference_stats
Kind(c) == IF "mean" \in reference_stats[c].keys THEN "Continuous" ELSE "Categorical"

NotApplicable(column, kind) ==
    \/ column \notin columns(reference_data)
    \/ Kind(column) = kind

\* C12: ks_test, wasserstein_distance and population_stability_index give a
\* null result, and do not raise, for a column that is absent from the
\* reference or Categorical in it; chi_square_test does so for a column that
\* is absent from the reference or Continuous in it.
C12_WrongKindIsNull ==
    /\ ( /\ last.status \in {"ks_test", "wasserstein_distance",
                             "population_stability_index"}
         /\ NotApplicable(last.column, "Categorical") )
       => last.result = None
    /\ ( /\ last.status = "chi_square_test"
         /\ NotApplicable(last.column, "Continuous") )
       => last.result = None

C12_Witness ==
    /\ last.status = "ks_test"
    /\ last.column \in columns(reference_data)
    /\ Kind(last.column) = "Categorical"
    /\ last.result = None

\* The entry of a column in one of the four test collections of a report
HasEntry(r, test, c) ==
    CASE test = "ks"          -> DictHas(r.ks_tests, c)
      [] test = "wasserstein" -> DictHas(r.wasserstein_tests, c)
      [] test = "psi"         -> DictHas(r.psi_tests, c)
      [] test = "chi_square"  -> DictHas(r.chi_square_tests, c)

NumericTests == {"ks", "wasserstein", "psi"}

\* C13: in a report returned by detect_drift every Continuous reference
\* column present in the current dataset has a KS, a Wasserstein and a PSI
\* entry and no Chi-square entry, and every Categorical one that is present
\* has a Chi-square entry and no other, a test that gave a null result
\* having no entry.
C13_EntriesFollowKind ==
    Returned =>
        \A c \in columns(reference_data) \cap last.columns :
            LET r == heap[last.id]
            IN  IF Kind(c) = "Continuous"
                THEN /\ \A t \in NumericTests :
                            <<t, c>> \notin last.nulls => HasEntry(r, t, c)
                     /\ ~HasEntry(r, "chi_square", c)
                ELSE /\ <<"chi_square", c>> \notin last.nulls
                            => HasEntry(r, "chi_square", c)
                     /\ <<"chi_square", c>> \in last.nulls
                            => ~HasEntry(r, "chi_square", c)
                     /\ \A t \in NumericTests : ~HasEntry(r, t, c)

C13_Witness ==
    /\ Returned
    /\ Len(ReferenceNames) = 2
    /\ Kind(ReferenceNames[1]) = "Categorical"
    /\ Kind(ReferenceNames[2]) = "Continuous"
    /\ DictKeys(heap[last.id].chi_square_tests) = {ReferenceNames[1]}
    /\ DictKeys(heap[last.id].ks_tests) = {ReferenceNames[2]}
    /\ DictKeys(heap[last.id].wasserstein_tests) = {ReferenceNames[2]}
    /\ DictKeys(heap[last.id].psi_tests) = {ReferenceNames[2]}
    /\ last.nulls = {<<"ks", ReferenceNames[1]>>, <<"wasserstein", ReferenceNames[1]>>,
                     <<"psi", ReferenceNames[1]>>, <<"chi_square", ReferenceNames[2]>>}

\* The numeric dtypes among DTypes: integers and reals of any width
NumericDTypes == {"float64", "float32", "int64", "int32"} \cap DTypes

\* C14: every reference column of a numeric dtype, of any width, is
\* summarized as Continuous and gets KS, Wasserstein and PSI entries in a
\* returned report when it is present; every other reference column is
\* summarized as Categorical and gets no numeric entry.
C14_NumericIsContinuous ==
    constructed =>
        \A c \in columns(reference_data) :
            IF dtype(reference_data, c) \in NumericDTypes
            THEN /\ Kind(c) = "Continuous"
                 /\ (Returned /\ c \in last.columns)
                        => \A t \in NumericTests : HasEntry(heap[last.id], t, c)
            ELSE /\ Kind(c) = "Categorical"
                 /\ (Returned /\ c \in last.columns)
                        => \A t \in NumericTests : ~HasEntry(heap[last.id], t, c)

\* The test families of a kind
Families(kind) == IF kind = "Continuous" THEN NumericTests ELSE {"chi_square"}

AllTests == NumericTests \cup {"chi_square"}

\* What the call recorded in l did with column c, against kind k: a call that
\* returned has entries of the families of k only, each of them present or
\* null; a call that raised did so in a numeric routine
RanFamiliesOf(k, l, hp, c) ==
    IF l.status = "returned"
    THEN \A t \in AllTests :
            IF t \in Families(k)
            THEN HasEntry(hp[l.id], t, c) \/ <<t, c>> \in l.nulls
            ELSE ~HasEntry(hp[l.id], t, c)
    ELSE TRUE

\* C15: the kind of a reference column is the one recorded at construction:
\* no detect_drift call changes it, a call that returns has run on every
\* present column the families of that kind and no other, whatever the
\* column holds in the current dataset and whatever calls came before, and a
\* call that raises has a present Continuous column.
C15_KindFixedAtConstruction ==
    [][constructed =>
          /\ \A c \in columns(reference_data) :
                /\ Kind(c) = IF "mean" \in reference_stats'[c].keys
                             THEN "Continuous" ELSE "Categorical"
                /\ (clock' # clock /\ c \in last'.columns)
                      => RanFamiliesOf(Kind(c), last', heap', c)
          /\ (clock' # clock /\ last'.status = "raised")
                => \E c \in columns(reference_data) \cap last'.columns :
                      Kind(c) = "Continuous"]_vars

C15_Witness ==
    /\ clock = 2
    /\ n_returned = 1
    /\ last.status = "raised"
    /\ last.rows = 1
    /\ len(reference_data) = 1
    /\ last.columns = columns(reference_data)
    /\ \E c \in last.text : Kind(c) = "Continuous"
    /\ \A c \in last.columns \ last.text : Kind(c) = "Categorical"
    /\ DictKeys(heap[1].ks_tests) = last.text

\* Every entry of dict d is flagged exactly when Beyond holds of it
FlagsAgree(d, Beyond(_)) ==
    \A i \in 1..Len(d) : d[i].value.drift_detected <=> Beyond(d[i].value)

\* C16: in a report returned by detect_drift a KS entry is flagged iff its
\* p-value is below threshold_ks, a Wasserstein entry iff its distance is
\* above threshold_wasserstein, a PSI entry iff its PSI is above
\* threshold_psi, a Chi-square entry iff its p-value is below threshold_ks;
\* an entry whose value equals the threshold is not flagged.
C16_FlagIffBeyondThreshold ==
    Returned =>
        LET r == heap[last.id]
            KsBeyond(e)  == e.p_value < threshold_ks
            WsBeyond(e)  == e.distance > threshold_wasserstein
            PsiBeyond(e) == e.psi > threshold_psi
        IN  /\ FlagsAgree(r.ks_tests, KsBeyond)
            /\ FlagsAgree(r.wasserstein_tests, WsBeyond)
            /\ FlagsAgree(r.psi_tests, PsiBeyond)
            /\ FlagsAgree(r.chi_square_tests, KsBeyond)

\* C17: the severity stored with a PSI entry is LOW when the entry's PSI is
\* below 0.10, MEDIUM when it is at least 0.10 and below 0.25, HIGH when it
\* is at least 0.25; 0.10 is MEDIUM and 0.25 is HIGH.
C17_PsiBandOfEntry ==
    \A id \in DOMAIN heap :
        \A i \in 1..Len(heap[id].psi_tests) :
            LET e == heap[id].psi_tests[i].value
            IN  /\ e.severity = "LOW"    <=> e.psi < PsiLowBand
                /\ e.severity = "MEDIUM" <=> (PsiLowBand <= e.psi /\ e.psi < PsiMediumBand)
                /\ e.severity = "HIGH"   <=> e.psi >= PsiMediumBand

\* C18: an add_psi call with drift_detected true leaves the report with
\* overall_severity HIGH or CRITICAL and drift_detected true, whatever the
\* state of the report before; an add_psi call with drift_detected false
\* leaves overall_severity and the report's drift_detected as they were.
C18_AddPsiEscalates ==
    [][\A id \in DOMAIN heap :
          \A column \in AddColumns, psi_value \in AddPsiValues, flag \in BOOLEAN :
            ( /\ adds' # adds
              /\ heap' = [heap EXCEPT ![id] = add_psi(@, column, psi_value, flag)] )
            => IF flag
               THEN /\ heap'[id].overall_severity \in {"HIGH", "CRITICAL"}
                    /\ heap'[id].drift_detected
               ELSE /\ heap'[id].overall_severity = heap[id].overall_severity
                    /\ heap'[id].drift_detected = heap[id].drift_detected]_vars

C18_Witness ==
    /\ adds = 3
    /\ heap[1].missing_columns # << >>
    /\ heap[1].overall_severity = "HIGH"
    /\ \E i \in 1..Len(heap[1].psi_tests) :
          /\ heap[1].psi_tests[i].value.drift_detected
          /\ heap[1].psi_tests[i].value.severity = "LOW"
    /\ heap[1].ks_tests # EmptyDict

\* The results of a report: all of it but the timestamp and the label of
\* the current period
Results(r) ==
    [ks_tests |-> r.ks_tests, wasserstein_tests |-> r.wasserstein_tests,
     psi_tests |-> r.psi_tests, chi_square_tests |-> r.chi_square_tests,
     missing_columns |-> r.missing_columns, drift_detected |-> r.drift_detected,
     overall_severity |-> r.overall_severity]

\* C19: two detect_drift runs on one engine with the same current dataset
\* (and so the same ks_2samp and histogram results) return reports with the
\* same results: the draw inside wasserstein_distance makes no difference.
C19_RunsReproducible ==
    [][( /\ Returned
         /\ clock' # clock
         /\ last'.current_dist = last.current_dist
         /\ last'.lib = last.lib )
       => Results(heap'[last'.id]) = Results(heap[last.id])]_vars

ReturnedCallers == {t \in Callers : frames[t].pc = "returned"}

\* C20: with several callers inside detect_drift on one engine, in every
\* interleaving drift_history holds one entry per call that has returned,
\* each entry is the whole report of one such call, and the report of a
\* call is the one a call alone computes from that caller's current dataset.
C20_ConcurrentCallsIsolated ==
    /\ Len(drift_history) = Cardinality(ReturnedCallers)
    /\ \A t \in ReturnedCallers :
          /\ Cardinality({i \in 1..Len(drift_history) :
                             drift_history[i].ks_tests.ref = frames[t].report}) = 1
          /\ \A i \in 1..Len(drift_history) :
                drift_history[i].ks_tests.ref = frames[t].report
                    => Resolve(drift_history[i], heap) = heap[frames[t].report]
          /\ heap[frames[t].report]
                = build_report(frames[t].current_data, frames[t].lib,
                               frames[t].now).report
    /\ \A t, u \in ReturnedCallers : t # u => frames[t].report # frames[u].report

C20_Witness ==
    /\ ReturnedCallers = Callers
    /\ Len(reference_data.columns) = 2
    /\ Len(drift_history) = 2
    /\ drift_history[1].ks_tests.ref = 2
    /\ drift_history[2].ks_tests.ref = 1
    /\ Results(heap[1]) # Results(heap[2])
    /\ heap[1].ks_tests # EmptyDict
    /\ heap[2].missing_columns # << >>

\* The last call was detect_drift(R) on an engine built from R
OnReference == last.status \in {"returned", "raised"} /\ "on" \in DOMAIN last

\* C21: detect_drift(R) on an engine built from R returns, for every
\* reference dataset R, a report with drift_detected false, overall_severity
\* LOW, no missing column and no entry flagged.
C21_IdentityHasNoDrift ==
    OnReference =>
        /\ Returned
        /\ ~heap[last.id].drift_detected
        /\ heap[last.id].overall_severity = "LOW"
        /\ heap[last.id].missing_columns = << >>
        /\ ~AnyFlagged(heap[last.id].ks_tests)
        /\ ~AnyFlagged(heap[last.id].wasserstein_tests)
        /\ ~AnyFlagged(heap[last.id].psi_tests)
        /\ ~AnyFlagged(heap[last.id].chi_square_tests)

\* What holds of it: the same whenever the call returns, and it returns
\* whenever R has a row or no numeric column
IdentityWhenReturned ==
    OnReference =>
        /\ Returned <=> (len(reference_data) > 0
                          \/ \A c \in columns(reference_data) :
                                dtype(reference_data, c) \notin ContinuousDTypes)
        /\ Returned =>
              /\ ~heap[last.id].drift_detected
              /\ heap[last.id].overall_severity = "LOW"
              /\ heap[last.id].missing_columns = << >>

\* Two Python values of the same type and value
SamePy(a, b) == a.type = b.type /\ a.v = b.v

\* C22: the document to_json gives, parsed back, has the drift_detected and
\* the overall_severity of to_dict and the same top-level keys.
C22_JsonRoundTrip ==
    last.status = "to_json" =>
        /\ last.parsed.type = "dict"
        /\ DOMAIN last.parsed.v = DOMAIN last.dict
        /\ SamePy(last.parsed.v.drift_detected, PyBool(last.dict.drift_detected))
        /\ SamePy(last.parsed.v.overall_severity, PyStr(last.dict.overall_severity))

C22_Witness ==
    /\ last.status = "to_json"
    /\ last.dict.drift_detected
    /\ last.dict.overall_severity = "CRITICAL"
    /\ last.parsed.v.missing_columns.v # << >>
    /\ DOMAIN last.parsed.v.psi_tests.v # {}
    /\ adds = 3

\* The place of each kind of line in the layout of summary()
LayoutOrder ==
    <<"header", "verdict", "severity", "missing_heading", "missing", "ks_heading",
      "ks", "wasserstein_heading", "wasserstein", "psi_heading", "psi",
      "chi_square_heading", "chi_square", "footer">>

HeaderKinds == {"rule", "title", "reference_period", "current_period", "timestamp"}

LayoutRank(lines, i) ==
    LET k == IF i = Len(lines) THEN "footer"
             ELSE IF lines[i].kind \in HeaderKinds THEN "header"
             ELSE lines[i].kind
    IN  CHOOSE n \in 1..Len(LayoutOrder) : LayoutOrder[n] = k

\* The columns of the lines of one kind, in the order they are rendered
ColumnsOf(lines, kind) ==
    LET OfKind(l) == l.kind = kind
        sel == SelectSeq(lines, OfKind)
    IN  [i \in 1..Len(sel) |-> sel[i].col]

Headings(lines, kind) == Cardinality({i \in 1..Len(lines) : lines[i].kind = kind})

DictKeySeq(d) == [i \in 1..Len(d) |-> d[i].key]

\* C23: summary() renders the missing-columns section iff missing_columns is
\* not empty and the section of a test family iff its collection is not
\* empty, one line per column of it, in the order header, verdict, severity,
\* missing columns, KS, Wasserstein, PSI, Chi-square; the verdict line says
\* that drift was detected iff drift_detected is true.
C23_SummaryLayout ==
    last.status = "summary" =>
        LET lines == last.lines
            r == last.report
        IN  /\ \A i \in 1..(Len(lines) - 1) :
                  LayoutRank(lines, i) <= LayoutRank(lines, i + 1)
            /\ lines[Len(lines)].kind = "rule"
            /\ Headings(lines, "verdict") = 1 /\ Headings(lines, "severity") = 1
            /\ \A i \in 1..Len(lines) :
                  lines[i].kind = "verdict"
                      => (lines[i].text = "DRIFT DETECTED" <=> r.drift_detected)
            /\ Headings(lines, "missing_heading")
                  = (IF r.missing_columns = << >> THEN 0 ELSE 1)
            /\ ColumnsOf(lines, "missing") = r.missing_columns
            /\ Headings(lines, "ks_heading") = (IF r.ks_tests = << >> THEN 0 ELSE 1)
            /\ ColumnsOf(lines, "ks") = DictKeySeq(r.ks_tests)
            /\ Headings(lines, "wasserstein_heading")
                  = (IF r.wasserstein_tests = << >> THEN 0 ELSE 1)
            /\ ColumnsOf(lines, "wasserstein") = DictKeySeq(r.wasserstein_tests)
            /\ Headings(lines, "psi_heading") = (IF r.psi_tests = << >> THEN 0 ELSE 1)
            /\ ColumnsOf(lines, "psi") = DictKeySeq(r.psi_tests)
            /\ Headings(lines, "chi_square_heading")
                  = (IF r.chi_square_tests = << >> THEN 0 ELSE 1)
            /\ ColumnsOf(lines, "chi_square") = DictKeySeq(r.chi_square_tests)

C23_Witness ==
    /\ last.status = "summary"
    /\ Len(last.report.missing_columns) = 2
    /\ Len(last.report.psi_tests) = 1
    /\ last.report.ks_tests = << >>
    /\ Headings(last.lines, "ks_heading") = 0
    /\ Headings(last.lines, "psi_heading") = 1
    /\ Len(last.lines) = 14

Exited == last.status = "exit"

\* C24: main exits with 0 iff both datasets were loaded, detect_drift
\* completed and the report's drift_detected is false; it exits with 1 when
\* drift was detected; a run that did not complete does not exit with 0.
C24_ExitCodeFromReport ==
    Exited =>
        /\ last.code = 0 <=>
              (last.loaded /\ last.completed /\ ~heap[last.id].drift_detected)
        /\ (last.completed /\ heap[last.id].drift_detected) => last.code = 1
        /\ ~last.completed => last.code # 0

\* C24 as amended: main exits with 0 iff both datasets were loaded,
\* detect_drift completed, the report and the summary were written and the
\* report's drift_detected is false; it exits with 1 when drift was
\* detected; a run that did not complete does not exit with 0.
C24_ExitCodeFromRun ==
    Exited =>
        /\ last.code = 0 <=>
              ( /\ last.loaded /\ last.completed /\ last.saved
                /\ ~heap[last.id].drift_detected )
        /\ (last.completed /\ heap[last.id].drift_detected) => last.code = 1
        /\ ~last.completed => last.code # 0

C24_Witness ==
    /\ Exited
    /\ last.code = 0
    /\ last.saved
    /\ heap[last.id].ks_tests # EmptyDict
    /\ heap[last.id].chi_square_tests # EmptyDict

\* How many times value v occurs in sequence s
Count(s, v) == Cardinality({i \in 1..Len(s) : s[i] = v})

\* Sample `drawn` was drawn from `dist` without replacement
DrawnFrom(drawn, dist) == \A v \in SampleValues : Count(drawn, v) <= Count(dist, v)

\* Sample `drawn` is `dist` in full, each element once
InFull(drawn, dist) == \A v \in SampleValues : Count(drawn, v) = Count(dist, v)

\* C25: wasserstein_distance compares two samples of the length of the
\* shorter of the reference and current samples; each is drawn from its
\* column without replacement, and the shorter one is used in full, each of
\* its elements once.
C25_SamplesOfEqualLength ==
    last.status = "wasserstein_distance" =>
        LET min_len == IF Len(last.reference_dist) < Len(last.current_dist)
                       THEN Len(last.reference_dist) ELSE Len(last.current_dist)
        IN  /\ Len(last.reference_sample) = min_len
            /\ Len(last.current_sample) = min_len
            /\ DrawnFrom(last.reference_sample, last.reference_dist)
            /\ DrawnFrom(last.current_sample, last.current_dist)
            /\ Len(last.reference_dist) = min_len
                  => InFull(last.reference_sample, last.reference_dist)
            /\ Len(last.current_dist) = min_len
                  => InFull(last.current_sample, last.current_dist)

C25_Witness ==
    /\ last.status = "wasserstein_distance"
    /\ last.reference_dist = <<1, 0>>
    /\ last.current_dist = <<0, 1, 1>>
    /\ last.reference_sample = <<0, 1>>
    /\ last.current_sample = <<1, 1>>
    /\ last.distance = 5000000

\* C26: in every report returned by detect_drift the key sets of ks_tests,
\* wasserstein_tests and psi_tests are equal, they are disjoint from the key
\* set of chi_square_tests, all four are disjoint from missing_columns and
\* are subsets of the reference columns, and a column that only the current
\* dataset has appears nowhere in the report.
C26_CollectionsPartitionColumns ==
    Returned =>
        LET r       == heap[last.id]
            missing == SeqToSet(r.missing_columns)
        IN  /\ DictKeys(r.ks_tests) = DictKeys(r.wasserstein_tests)
            /\ DictKeys(r.wasserstein_tests) = DictKeys(r.psi_tests)
            /\ DictKeys(r.ks_tests) \cap DictKeys(r.chi_square_tests) = {}
            /\ TestedColumns(r) \cap missing = {}
            /\ TestedColumns(r) \subseteq columns(reference_data)
            /\ \A c \in last.columns \ columns(reference_data) :
                    c \notin TestedColumns(r) \cup missing

C26_Witness ==
    /\ Returned
    /\ Len(ReferenceNames) = 1
    /\ last.columns = SeqToSet(ColumnNames)
    /\ TestedColumns(heap[last.id]) = {ReferenceNames[1]}
    /\ DictKeys(heap[last.id].psi_tests) = {ReferenceNames[1]}
    /\ heap[last.id].missing_columns = <<>>

\* The test of reference column c gave a null result because its computation
\* failed: chi2_contingency raised inside chi_square_test's try block, which
\* is the one computation that is caught; for a column of another dtype the
\* null result comes from the dtype check
ComputationFailed(c) ==
    /\ dtype(reference_data, c) \in CategoricalDTypes
    /\ <<"chi_square", c>> \in last.nulls

\* C27: in a report returned by detect_drift every reference column, of any
\* dtype, is listed in missing_columns or has an entry in at least one of the
\* four test collections, unless its test gave a null result because the
\* computation failed.
C27_EveryColumnAccounted ==
    Returned =>
        \A c \in columns(reference_data) :
            \/ c \in SeqToSet(heap[last.id].missing_columns)
            \/ c \in TestedColumns(heap[last.id])
            \/ ComputationFailed(c)

\* C28: a report returned by detect_drift with no missing column and no PSI
\* entry flagged has overall_severity LOW, also when drift_detected is true
\* because a KS, Wasserstein or Chi-square entry is flagged; and no report,
\* returned or still being built, ever has overall_severity MEDIUM.
C28_OnlyPsiAndMissingEscalate ==
    /\ \A id \in 1..Len(heap) : heap[id].overall_severity # "MEDIUM"
    /\ \A t \in ReturnedCallers :
          LET r == heap[frames[t].report]
          IN  (r.missing_columns = <<>> /\ ~AnyFlagged(r.psi_tests))
                  => r.overall_severity = "LOW"

C28_Witness ==
    \E t \in ReturnedCallers :
        LET r == heap[frames[t].report]
        IN  /\ r.missing_columns = <<>>
            /\ r.psi_tests # EmptyDict
            /\ ~AnyFlagged(r.psi_tests)
            /\ AnyFlagged(r.ks_tests)
            /\ AnyFlagged(r.wasserstein_tests)
            /\ r.drift_detected
            /\ r.overall_severity = "LOW"

\* C29: with threshold_psi at its default 0.25, every PSI entry of a report
\* returned by detect_drift has drift_detected true exactly when its
\* severity band is HIGH.
C29_FlaggedIffHighBand ==
    (Returned /\ threshold_psi = DefaultThresholdPsi) =>
        \A i \in 1..Len(heap[last.id].psi_tests) :
            LET e == heap[last.id].psi_tests[i].value
            IN  e.drift_detected <=> e.severity = "HIGH"

AlertLevels == <<"WARNING", "CRITICAL">>

AlertRank(level) == CHOOSE i \in 1..Len(AlertLevels) : AlertLevels[i] = level

\* C30: create_alerts gives exactly one alert when the report's
\* drift_detected is true and none otherwise, total_alerts is the number of
\* alerts, and the alert level does not go down when the report's severity
\* goes up: a report of severity CRITICAL gets a level at least as high as a
\* report of severity HIGH.
C30_AlertLevelMonotone ==
    last.status = "create_alerts" =>
        LET d   == last.report_dict
            out == last.result
        IN  /\ Len(out.alerts) = IF d.drift_detected THEN 1 ELSE 0
            /\ out.total_alerts = Len(out.alerts)
            /\ d.drift_detected =>
                  \A s \in SeqToSet(Severities) :
                      SeverityRank(s) <= SeverityRank(d.severity)
                          => AlertRank(out.alerts[1].level)
                                >= AlertRank(create_alerts([d EXCEPT !.severity = s],
                                                           out.timestamp).alerts[1].level)

====
